---------------------------- MODULE Spec2Model ----------------------------
(***************************************************************************)
(* Model of src/real_time_dashboard/app.py: a Dash page of six panels.     *)
(* Every panel is written by one callback; a callback is started by the    *)
(* page load, by the tick of a dcc.Interval or by a button, reads its text *)
(* input (State), calls one data client, renders the result and returns it *)
(* to the browser, which puts it in the panel.  The data clients block on  *)
(* HTTP calls: a callback invocation is in flight from its dispatch to its *)
(* return, and several invocations may be in flight at once.               *)
(***************************************************************************)
EXTENDS Naturals, Sequences, FiniteSets, TLC

(***************************************************************************)
(* Bounds of the model.                                                    *)
(***************************************************************************)
\* callback invocations in flight at once, one-panel specifications
MaxPending == 3
\* callback invocations in flight at once, whole-page specifications
MaxInFlight == 2

(***************************************************************************)
(* The layout (app.layout) and the wiring of the callbacks.                *)
(***************************************************************************)
Callbacks ==
    {"update_stock", "update_covid", "update_weather",
     "update_crypto", "update_marketcap", "update_news"}

Panels == {"stock", "covid", "weather", "crypto", "marketcap", "news"}

Timers ==
    {"stock-interval", "covid-interval", "weather-interval",
     "crypto-interval", "news-interval"}

Buttons == {"load-stock", "load-covid", "load-weather"}

Fields == {"stock-ticker", "country", "city"}

\* the value each dcc.Input is laid out with
LayoutValue(f) ==
    CASE f = "stock-ticker" -> "AAPL"
      [] f = "country"      -> "India"
      [] f = "city"         -> "New Delhi"

\* what a user may type into a field
Typable(f) ==
    CASE f = "stock-ticker" -> {"AAPL", "GOOG"}
      [] f = "country"      -> {"India", "Atlantis"}
      [] f = "city"         -> {"New Delhi", "Paris"}

\* Output with update_weather declared on the pandemic panel's component
OutputCopied(c) ==
    CASE c = "update_stock"     -> "stock"
      [] c = "update_covid"     -> "covid"
      [] c = "update_weather"   -> "covid"
      [] c = "update_crypto"    -> "crypto"
      [] c = "update_marketcap" -> "marketcap"
      [] c = "update_news"      -> "news"

\* the panel a callback's Output(s) belong to
Output(c) ==
    CASE c = "update_stock"     -> "stock"
      [] c = "update_covid"     -> "covid"
      [] c = "update_weather"   -> "weather"
      [] c = "update_crypto"    -> "crypto"
      [] c = "update_marketcap" -> "marketcap"
      [] c = "update_news"      -> "news"

\* Inputs with update_covid not listening to its interval
InputsWithoutInterval(c) ==
    CASE c = "update_stock"     -> {"load-stock", "stock-interval"}
      [] c = "update_covid"     -> {"load-covid"}
      [] c = "update_weather"   -> {"load-weather", "weather-interval"}
      [] c = "update_crypto"    -> {"crypto-interval"}
      [] c = "update_marketcap" -> {"crypto-interval"}
      [] c = "update_news"      -> {"news-interval"}

\* Inputs with update_news listening to the stock panel's interval
InputsShared(c) ==
    CASE c = "update_stock"     -> {"load-stock", "stock-interval"}
      [] c = "update_covid"     -> {"load-covid", "covid-interval"}
      [] c = "update_weather"   -> {"load-weather", "weather-interval"}
      [] c = "update_crypto"    -> {"crypto-interval"}
      [] c = "update_marketcap" -> {"crypto-interval"}
      [] c = "update_news"      -> {"stock-interval"}

\* the components a callback declares as Input: a change of one starts it
Inputs(c) ==
    CASE c = "update_stock"     -> {"load-stock", "stock-interval"}
      [] c = "update_covid"     -> {"load-covid", "covid-interval"}
      [] c = "update_weather"   -> {"load-weather", "weather-interval"}
      [] c = "update_crypto"    -> {"crypto-interval"}
      [] c = "update_marketcap" -> {"crypto-interval"}
      [] c = "update_news"      -> {"news-interval"}

\* the field a callback declares as State ("" when it has none)
StateField(c) ==
    CASE c = "update_stock"   -> "stock-ticker"
      [] c = "update_covid"   -> "country"
      [] c = "update_weather" -> "city"
      [] OTHER                -> ""

\* the callbacks a component starts
Wired(t) == {c \in Callbacks : t \in Inputs(c)}

(***************************************************************************)
(* Values.  A DataFrame is its columns and its rows; a JSON object is its  *)
(* keys and what it is about; None and the empty dict have no keys.        *)
(***************************************************************************)
Frame(cols, rows) == [columns |-> cols, rows |-> rows]
EmptyFrame == Frame({}, <<>>)
IsEmpty(df) == df.rows = <<>> \/ df.columns = {}

Json(keys, about) == [keys |-> keys, about |-> about]
None == Json({}, "")
Falsy(d) == d.keys = {}

\* what a panel shows
Content(kind, label, data) == [kind |-> kind, label |-> label, data |-> data]
Blank == Content("blank", "", <<>>)

\* how a callback invocation ends
Returned(content) == [raised |-> FALSE, content |-> content]
Raised == [raised |-> TRUE, content |-> Blank]

(***************************************************************************)
(* The data clients.  `reply` is what the HTTP call of the client met:     *)
(*   "neterr"  the call raised (requests / yfinance could not connect)     *)
(*   "notjson" a body that .json() cannot parse                            *)
(* and else the shape of the JSON body, see Replies.                       *)
(***************************************************************************)
fetch_stock_data(ticker, reply) ==
    IF reply = "rows"
    THEN Frame({"Datetime", "Close"}, <<ticker>>)
    ELSE EmptyFrame

fetch_covid_data(country, reply) ==
    CASE reply = "stats" ->
            Json({"country", "cases", "active", "recovered", "deaths"}, country)
      [] reply = "message" -> Json({"message"}, "")
      [] OTHER -> None

\* Geocode taking coordinates from any answer that parsed
GeocodeUnchecked(city, reply) == IF reply = "neterr" THEN "" ELSE city

\* fetch_weather up to its second HTTP call: the coordinates of results[0],
\* or "" when the lookup raised
Geocode(city, reply) == IF reply = "found" THEN city ELSE ""

\* fetch_weather from its second HTTP call on
Forecast(loc, reply) ==
    IF reply = "current"
    THEN Json({"temperature", "windspeed", "time"}, loc)
    ELSE None

fetch_crypto_data(reply) ==
    CASE reply = "coins" ->
            Frame({"name", "current_price"},
                  <<"Bitcoin", "Ethereum", "Solana", "Dogecoin">>)
      [] reply = "errorobject" ->
            Frame({"status"}, <<"error_code", "error_message">>)
      [] OTHER -> EmptyFrame

companies ==
    << <<"Apple", 31>>, <<"Microsoft", 28>>, <<"Amazon", 19>>, <<"Google", 20>>,
       <<"NVIDIA", 23>>, <<"Meta", 13>>, <<"Tesla", 9>>, <<"Samsung", 6>> >>

\* sort_values with ascending=True
RECURSIVE InsertAscending(_, _)
InsertAscending(r, rows) ==
    IF rows = <<>> THEN <<r>>
    ELSE IF r[2] < Head(rows)[2] THEN <<r>> \o rows
    ELSE <<Head(rows)>> \o InsertAscending(r, Tail(rows))

RECURSIVE sort_ascending(_)
sort_ascending(rows) ==
    IF rows = <<>> THEN <<>>
    ELSE InsertAscending(Head(rows), sort_ascending(Tail(rows)))

\* rows with row r put before the first row of a smaller MarketCap
RECURSIVE InsertDescending(_, _)
InsertDescending(r, rows) ==
    IF rows = <<>> THEN <<r>>
    ELSE IF r[2] > Head(rows)[2] THEN <<r>> \o rows
    ELSE <<Head(rows)>> \o InsertDescending(r, Tail(rows))

RECURSIVE sort_values(_)
sort_values(rows) ==
    IF rows = <<>> THEN <<>>
    ELSE InsertDescending(Head(rows), sort_values(Tail(rows)))

fetch_market_caps == Frame({"Company", "MarketCap"}, sort_values(companies))

fetch_tech_news(reply) ==
    IF reply = "hits" THEN <<"story1", "story2">> ELSE <<>>

(***************************************************************************)
(* The callbacks, from the data client's result to what they return.       *)
(***************************************************************************)
update_stock(ticker, reply) ==
    LET df == fetch_stock_data(ticker, reply) IN
    IF IsEmpty(df)
    THEN Returned(Content("no-stock-data", ticker, <<>>))
    ELSE Returned(Content("price-line", ticker, df.rows))

\* update_covid over a fetch_covid_data that lets the exception of its HTTP
\* call through
update_covid_uncaught(country, reply) ==
    LET data == fetch_covid_data(country, reply) IN
    IF reply \in {"neterr", "notjson"} THEN Raised
    ELSE IF Falsy(data)
    THEN Returned(Content("no-data", "", <<>>))
    ELSE IF {"country", "cases", "active", "recovered", "deaths"} \subseteq data.keys
    THEN Returned(Content("covid-stats", data.about, <<>>))
    ELSE Raised

update_covid(country, reply) ==
    LET data == fetch_covid_data(country, reply) IN
    IF Falsy(data)
    THEN Returned(Content("no-data", "", <<>>))
    ELSE IF {"country", "cases", "active", "recovered", "deaths"} \subseteq data.keys
    THEN Returned(Content("covid-stats", data.about, <<>>))
    ELSE Raised

update_weather(data) ==
    IF Falsy(data)
    THEN Returned(Content("no-weather-data", "", <<>>))
    ELSE Returned(Content("weather", data.about, <<>>))

update_crypto(reply) ==
    LET df == fetch_crypto_data(reply) IN
    IF IsEmpty(df)
    THEN Returned(Content("empty-figure", "", <<>>))
    ELSE IF {"name", "current_price"} \subseteq df.columns
    THEN Returned(Content("crypto-bars", "", df.rows))
    ELSE Raised

update_marketcap ==
    LET df == fetch_market_caps IN
    Returned(Content("marketcap-bars", "", df.rows))

update_news(reply) ==
    LET news == fetch_tech_news(reply) IN
    IF news = <<>>
    THEN Returned(Content("no-news", "", <<>>))
    ELSE Returned(Content("news-links", "", news))

(***************************************************************************)
(* A callback invocation in flight: the State value it was started with,   *)
(* the call it waits on and, for the weather, the coordinates it found.    *)
(***************************************************************************)
Request(arg, pc, loc) == [arg |-> arg, pc |-> pc, loc |-> loc]

\* the call an invocation of c waits on first
FirstCall(c) ==
    CASE c = "update_weather"   -> "geo"
      [] c = "update_marketcap" -> "run"
      [] OTHER                  -> "http"

\* what the call an invocation waits on can end with
Replies(c, pc) ==
    CASE c = "update_stock"   -> {"neterr", "empty", "rows"}
      [] c = "update_covid"   -> {"neterr", "notjson", "message", "stats"}
      [] c = "update_weather" /\ pc = "geo" ->
            {"neterr", "nofield", "zero", "found"}
      [] c = "update_weather" /\ pc = "forecast" ->
            {"neterr", "nocurrent", "current"}
      [] c = "update_crypto"  ->
            {"neterr", "emptyarray", "flaterror", "errorobject", "coins"}
      [] c = "update_news"    -> {"neterr", "nofield", "nohits", "hits"}
      [] OTHER                -> {"done"}

\* the replies a call that fails on the network ends with.  The geocoding
\* call of the weather client may also succeed: its forecast call fails then.
Failures(c, pc) ==
    CASE c = "update_marketcap" -> Replies(c, pc)
      [] c = "update_weather" /\ pc = "geo" -> {"neterr", "found"}
      [] OTHER -> {"neterr"}

\* whether invocation req of c, its call ended with reply, issues another
\* HTTP call (the forecast request) instead of returning
CallsAgain(c, req, reply) ==
    c = "update_weather" /\ req.pc = "geo" /\ Geocode(req.arg, reply) # ""

\* the invocation after that further call is issued
NextCall(c, req, reply) ==
    Request(req.arg, "forecast", Geocode(req.arg, reply))

\* how invocation req of c ends when its call ended with reply
Outcome(c, req, reply) ==
    CASE c = "update_stock"     -> update_stock(req.arg, reply)
      [] c = "update_covid"     -> update_covid(req.arg, reply)
      [] c = "update_weather"   ->
            IF req.pc = "geo" THEN update_weather(None)
            ELSE update_weather(Forecast(req.loc, reply))
      [] c = "update_crypto"    -> update_crypto(reply)
      [] c = "update_marketcap" -> update_marketcap
      [] c = "update_news"      -> update_news(reply)

(***************************************************************************)
(* State.                                                                  *)
(***************************************************************************)
VARIABLES
    value,      \* value[f]: the text in field f
    pending,    \* pending[c]: the invocations of c in flight, oldest first
    shown,      \* shown[p]: what panel p shows
    fault,      \* fault[c]: the last invocation of c to end raised
    asked       \* asked[c]: the State value of the last invocation of c started

vars == <<value, pending, shown, fault, asked>>

Init ==
    /\ value = [f \in Fields |-> LayoutValue(f)]
    /\ pending = [c \in Callbacks |-> <<>>]
    /\ shown = [p \in Panels |-> Blank]
    /\ fault = [c \in Callbacks |-> FALSE]
    /\ asked = [c \in Callbacks |-> ""]

\* c has been started at least once
Started(c) == pending[c] # <<>> \/ shown[Output(c)] # Blank \/ fault[c]

\* the number of invocations in flight
InFlight ==
    Len(pending["update_stock"]) + Len(pending["update_covid"])
    + Len(pending["update_weather"]) + Len(pending["update_crypto"])
    + Len(pending["update_marketcap"]) + Len(pending["update_news"])

\* the invocations of C can start without more than k being in flight
Room(C, k) == InFlight + Cardinality(C) <= k

NewRequest(c) ==
    Request(IF StateField(c) = "" THEN "" ELSE value[StateField(c)],
            FirstCall(c), "")

\* one invocation of every callback of set C starts
Dispatch(C) ==
    /\ pending' = [c \in Callbacks |->
                     IF c \in C THEN Append(pending[c], NewRequest(c))
                     ELSE pending[c]]
    /\ asked' = [c \in Callbacks |->
                     IF c \in C THEN NewRequest(c).arg ELSE asked[c]]
    /\ UNCHANGED <<value, shown, fault>>

\* the page load starts callback c (prevent_initial_call=False)
InitialCall(c, k) ==
    /\ ~Started(c)
    /\ Room({c}, k)
    /\ Dispatch({c})

\* interval t ticks, or button t is pressed
Fire(t, k) ==
    /\ \A c \in Wired(t) : Started(c)
    /\ Room(Wired(t), k)
    /\ Dispatch(Wired(t))

\* the user types v into field f
Type(f, v) ==
    /\ v # value[f]
    /\ value' = [value EXCEPT ![f] = v]
    /\ UNCHANGED <<pending, shown, fault, asked>>

Remove(s, i) == SubSeq(s, 1, i - 1) \o SubSeq(s, i + 1, Len(s))

\* the browser gets the answer to an invocation of c
Apply(c, out) ==
    /\ fault' = [fault EXCEPT ![c] = out.raised]
    /\ shown' = IF out.raised THEN shown
                ELSE [shown EXCEPT ![Output(c)] = out.content]

\* the call that invocation i of c waits on ends with reply r, and the
\* callback runs on to its next call or to its end
Complete(c, i, r) ==
    /\ i \in 1..Len(pending[c])
    /\ r \in Replies(c, pending[c][i].pc)
    /\ LET req == pending[c][i] IN
       IF CallsAgain(c, req, r)
       THEN /\ pending' = [pending EXCEPT ![c][i] = NextCall(c, req, r)]
            /\ UNCHANGED <<shown, fault>>
       ELSE /\ pending' = [pending EXCEPT ![c] = Remove(pending[c], i)]
            /\ Apply(c, Outcome(c, req, r))
    /\ UNCHANGED <<value, asked>>

(***************************************************************************)
(* Specifications.                                                         *)
(***************************************************************************)
\* the whole page, the fields left as laid out
Next ==
    \/ \E c \in Callbacks : InitialCall(c, MaxInFlight)
    \/ \E t \in Timers \cup Buttons : Fire(t, MaxInFlight)
    \/ \E c \in Callbacks : \E i \in 1..Len(pending[c]) :
          \E r \in Replies(c, pending[c][i].pc) : Complete(c, i, r)

Spec == Init /\ [][Next]_vars

\* the whole page while every fetch meets a network failure
NextOffline ==
    \/ \E c \in Callbacks : InitialCall(c, MaxInFlight)
    \/ \E t \in Timers \cup Buttons : Fire(t, MaxInFlight)
    \/ \E c \in Callbacks : \E i \in 1..Len(pending[c]) :
          \E r \in Failures(c, pending[c][i].pc) : Complete(c, i, r)

SpecOffline == Init /\ [][NextOffline]_vars

\* one panel with a text field, on its own
PanelNext(c) ==
    \/ InitialCall(c, MaxPending)
    \/ \E t \in Inputs(c) : Fire(t, MaxPending)
    \/ \E v \in Typable(StateField(c)) : Type(StateField(c), v)
    \/ \E i \in 1..Len(pending[c]) :
          \E r \in Replies(c, pending[c][i].pc) : Complete(c, i, r)

SpecStock == Init /\ [][PanelNext("update_stock")]_vars

SpecCovid == Init /\ [][PanelNext("update_covid")]_vars

SpecWeather == Init /\ [][PanelNext("update_weather")]_vars

\* the pandemic panel on its own, its dcc.Interval ticking again and again
FairSpecCovid ==
    SpecCovid /\ WF_vars(Fire("covid-interval", MaxPending))

(***************************************************************************)
(* Vocabulary of the properties.                                           *)
(***************************************************************************)
\* the callback that writes panel p
Writer(p) == CHOOSE c \in Callbacks : Output(c) = p

\* the kinds of content that stand for "no data"
AbsenceKinds ==
    {"no-stock-data", "no-data", "no-weather-data", "empty-figure", "no-news"}

\* the kinds of content that render fetched data
DataKinds ==
    {"price-line", "covid-stats", "weather", "crypto-bars",
     "marketcap-bars", "news-links"}

\* what callback c shows for "no data" when started with arg
Sentinel(c, arg) ==
    CASE c = "update_stock"   -> Content("no-stock-data", arg, <<>>)
      [] c = "update_covid"   -> Content("no-data", "", <<>>)
      [] c = "update_weather" -> Content("no-weather-data", "", <<>>)
      [] c = "update_crypto"  -> Content("empty-figure", "", <<>>)
      [] c = "update_news"    -> Content("no-news", "", <<>>)
      [] OTHER                -> Blank

\* the ways an invocation of c started with arg can end
Endings(c, arg) ==
    LET first == Request(arg, FirstCall(c), "")
        ends == {r \in Replies(c, first.pc) : ~CallsAgain(c, first, r)}
        goes == Replies(c, first.pc) \ ends
    IN  {Outcome(c, first, r) : r \in ends}
        \cup UNION {{Outcome(c, NextCall(c, first, r), q) :
                        q \in Replies(c, "forecast")} : r \in goes}

\* invocation i of c ends in this step, its last call ending with reply r
Ends(c, i, r) ==
    /\ Complete(c, i, r)
    /\ ~CallsAgain(c, pending[c][i], r)

(***************************************************************************)
(* C1.  Last request wins: once no refresh of a panel with a text field is *)
(* in flight, the panel shows a result of the request issued last, in      *)
(* whatever order the fetches completed.                                   *)
(***************************************************************************)
C1_LastRequestWins ==
    \A c \in {"update_stock", "update_covid", "update_weather"} :
        (Started(c) /\ pending[c] = <<>>)
        => \E o \in Endings(c, asked[c]) :
              ~o.raised /\ shown[Output(c)] = o.content

(***************************************************************************)
(* C3.  An answer of the pandemic endpoint that is well-formed JSON        *)
(* without the country fields ends the refresh like a network failure:     *)
(* the no-data sentinel is shown and the callback does not raise.          *)
(***************************************************************************)
C3_UnknownCountryIsNoData ==
    [][\A i \in 1..Len(pending["update_covid"]) :
          Ends("update_covid", i, "message")
          => /\ ~fault'["update_covid"]
             /\ shown'["covid"] = Sentinel("update_covid", "")]_vars

(***************************************************************************)
(* C4.  Every empty or failed answer of the crypto endpoint (network       *)
(* error, empty array, error object) ends the refresh with the empty chart *)
(* and without a raise.                                                    *)
(***************************************************************************)
C4_CryptoFailureIsEmptyChart ==
    [][\A i \in 1..Len(pending["update_crypto"]) :
          \A r \in {"neterr", "emptyarray", "flaterror", "errorobject"} :
             Ends("update_crypto", i, r)
             => /\ ~fault'["update_crypto"]
                /\ shown'["crypto"] = Sentinel("update_crypto", "")]_vars

(***************************************************************************)
(* C10.  Wholesale overwrite: when a refresh that failed ends on a panel   *)
(* showing the data of an earlier refresh, the panel shows the sentinel of *)
(* the failed one afterwards, not the earlier data.                        *)
(***************************************************************************)
C10_FailureOverwritesData ==
    [][\A c \in Callbacks : \A i \in 1..Len(pending[c]) :
          \A r \in Replies(c, pending[c][i].pc) :
             LET out == Outcome(c, pending[c][i], r) IN
             (/\ Ends(c, i, r)
              /\ shown[Output(c)].kind \in DataKinds
              /\ (out.raised \/ out.content.kind \in AbsenceKinds))
             => shown'[Output(c)] = Sentinel(c, pending[c][i].arg)]_vars

(***************************************************************************)
(* C2.  While the network fails, every data client returns its absence     *)
(* value and every panel whose refresh has ended is in a defined state:    *)
(* it shows the sentinel or the empty chart of its callback (the static    *)
(* market-cap chart for update_marketcap), and no callback raised.         *)
(***************************************************************************)
C2_NetworkFailureIsAbsence ==
    /\ \A t \in Typable("stock-ticker") : fetch_stock_data(t, "neterr") = EmptyFrame
    /\ \A n \in Typable("country") : fetch_covid_data(n, "neterr") = None
    /\ \A n \in Typable("city") :
          Geocode(n, "neterr") = "" /\ Forecast(n, "neterr") = None
    /\ fetch_crypto_data("neterr") = EmptyFrame
    /\ fetch_tech_news("neterr") = <<>>
    /\ \A c \in Callbacks :
          /\ ~fault[c]
          /\ Started(c) /\ pending[c] = <<>>
             => shown[Output(c)] =
                   IF c = "update_marketcap" THEN update_marketcap.content
                   ELSE Sentinel(c, asked[c])

\* every panel has ended a refresh that met the failing network
C2_Witness ==
    \A c \in Callbacks :
        /\ pending[c] = <<>>
        /\ c # "update_marketcap" => shown[Output(c)].kind \in AbsenceKinds

(***************************************************************************)
(* C5.  The weather client issues its forecast request only in the step in *)
(* which its geocoding call is answered with at least one result; when the *)
(* geocoding call fails, has no results field or has zero results, the     *)
(* invocation ends there, without a forecast request and with "no weather  *)
(* data".                                                                  *)
(***************************************************************************)
C5_ForecastOnlyAfterGeocode ==
    [][\A i \in 1..Len(pending["update_weather"]) :
          LET req == pending["update_weather"][i] IN
          /\ \A r \in {"neterr", "nofield", "zero"} :
                (req.pc = "geo" /\ Complete("update_weather", i, r))
                => /\ Len(pending'["update_weather"])
                         = Len(pending["update_weather"]) - 1
                   /\ \A j \in 1..Len(pending'["update_weather"]) :
                         pending'["update_weather"][j].pc = "forecast"
                         => \E k \in 1..Len(pending["update_weather"]) :
                               /\ k # i
                               /\ pending["update_weather"][k]
                                     = pending'["update_weather"][j]
                   /\ shown'["weather"] = Sentinel("update_weather", "")
                   /\ ~fault'["update_weather"]
          /\ (/\ Len(pending'["update_weather"]) = Len(pending["update_weather"])
              /\ req.pc = "geo"
              /\ pending'["update_weather"][i].pc = "forecast")
             => /\ Complete("update_weather", i, "found")
                /\ pending'["update_weather"][i].loc = req.arg]_vars

\* a forecast request is out, for the city the invocation was started with
C5_Witness ==
    \E i \in 1..Len(pending["update_weather"]) :
        /\ pending["update_weather"][i].pc = "forecast"
        /\ pending["update_weather"][i].loc = pending["update_weather"][i].arg
        /\ shown["weather"].kind = "no-weather-data"

(***************************************************************************)
(* C9.  The market-cap panel never fails and, once drawn, always holds the *)
(* same 8 (company, market cap) rows, each market cap greater than or      *)
(* equal to the next one, whatever the other panels did.                   *)
(***************************************************************************)
C9_MarketCapsSortedAndStatic ==
    /\ ~fault["update_marketcap"]
    /\ shown["marketcap"] # Blank
       => LET rows == shown["marketcap"].data IN
          /\ Len(rows) = 8
          /\ \A i \in 1..7 : rows[i][2] >= rows[i + 1][2]
          /\ {rows[i] : i \in 1..8} = {companies[i] : i \in 1..Len(companies)}

\* the market-cap chart is drawn and being redrawn while another panel failed
C9_Witness ==
    /\ shown["marketcap"].kind = "marketcap-bars"
    /\ pending["update_marketcap"] # <<>>
    /\ fault["update_crypto"]

(***************************************************************************)
(* The status of a panel: Loading while an invocation of its callback is   *)
(* in flight, else Idle before the first one, Failed when the last one     *)
(* raised or the panel shows "no data", and Ready when it shows data.      *)
(***************************************************************************)
Status(p) ==
    LET c == Writer(p) IN
    IF pending[c] # <<>> THEN "Loading"
    ELSE IF ~Started(c) THEN "Idle"
    ELSE IF fault[c] \/ shown[p].kind \in AbsenceKinds THEN "Failed"
    ELSE "Ready"

\* the state of callback c and of its panel
Own(c) == <<pending[c], fault[c], asked[c], shown[Output(c)]>>

(***************************************************************************)
(* C6.  Panel independence: the state of a callback and of its panel       *)
(* changes only in a step of that callback (its initial call, a trigger    *)
(* wired to it, a step of one of its invocations), and two callbacks       *)
(* change in one step only when a trigger wired to both fires; and         *)
(* whatever is in flight or has failed on the other panels, a trigger      *)
(* whose callbacks have been started and fit in the model's bound on       *)
(* invocations in flight is enabled, and every invocation in flight can    *)
(* take its next step.                                                     *)
(***************************************************************************)
C6_StepsStayInTheirPanel ==
    LET changed == {c \in Callbacks : Own(c)' # Own(c)} IN
    /\ \A c \in changed :
          \/ \E i \in 1..Len(pending[c]) :
                \E r \in Replies(c, pending[c][i].pc) : Complete(c, i, r)
          \/ InitialCall(c, MaxInFlight)
          \/ \E t \in Inputs(c) : Fire(t, MaxInFlight)
    /\ \A c \in changed : \A d \in changed \ {c} :
          \E t \in Inputs(c) \cap Inputs(d) : Fire(t, MaxInFlight)

C6_TriggersStayEnabled ==
    /\ \A t \in Timers \cup Buttons :
          ((\A c \in Wired(t) : Started(c)) /\ Room(Wired(t), MaxInFlight))
          => ENABLED Fire(t, MaxInFlight)
    /\ \A c \in Callbacks : \A i \in 1..Len(pending[c]) :
          ENABLED (\E r \in Replies(c, pending[c][i].pc) : Complete(c, i, r))

C7_StatusStep ==
    \A p \in Panels :
        \/ Status(p)' = Status(p)
        \/ Status(p) = "Idle" /\ Status(p)' = "Loading"
        \/ Status(p) = "Loading" /\ Status(p)' \in {"Ready", "Failed"}
        \/ Status(p) \in {"Ready", "Failed"} /\ Status(p)' = "Loading"

C7_Lifecycle ==
    /\ [][C7_StatusStep]_vars
    /\ \A p \in Panels : (Status(p) = "Failed") ~> (Status(p) = "Loading")

\* the pandemic panel is Failed because its callback raised
C7_Witness == Status("covid") = "Failed" /\ fault["update_covid"]

=============================================================================
